---- MODULE Spec2Model ----
(***************************************************************************)
(* Model of src/App.py: the "Generate client report" handler of the        *)
(* Search-vs-AI visibility app, with parse_input, extract_domain, the key  *)
(* lookups and the per-query metrics loop.                                 *)
(*                                                                         *)
(* Python strings are sequences of one-character strings, so that the      *)
(* regular expression of parse_input, str.strip, str.lower, str.split and  *)
(* the substring tests are computed character by character.                *)
(***************************************************************************)
EXTENDS Integers, Sequences, FiniteSets, TLC

(***************************************************************************)
(* Bounds of the exploration.                                              *)
(***************************************************************************)
MaxQueryLines == 2
MaxDataLines == 2

(***************************************************************************)
(* Characters and generic string helpers.                                  *)
(***************************************************************************)
NL == "\n"

\* characters matched by \s and removed by str.strip()
IsSpace(c) == c \in {" ", NL, "\t"}

UpperChars == <<"A","B","C","D","E","F","G","H","I","J","K","L","M",
                "N","O","P","Q","R","S","T","U","V","W","X","Y","Z">>
LowerChars == <<"a","b","c","d","e","f","g","h","i","j","k","l","m",
                "n","o","p","q","r","s","t","u","v","w","x","y","z">>

LowerChar(c) ==
    IF \E i \in 1..26 : UpperChars[i] = c
    THEN LowerChars[CHOOSE i \in 1..26 : UpperChars[i] = c]
    ELSE c

\* str.lower()
Lower(s) == [i \in 1..Len(s) |-> LowerChar(s[i])]

\* s[a..b] (1-based, inclusive), empty when a > b
Slice(s, a, b) == IF a > b THEN <<>> ELSE SubSeq(s, a, b)

\* str.strip()
Strip(s) ==
    LET keep == {i \in 1..Len(s) : ~IsSpace(s[i])}
    IN  IF keep = {} THEN <<>>
        ELSE LET a == CHOOSE i \in keep : \A j \in keep : i <= j
                 b == CHOOSE i \in keep : \A j \in keep : i >= j
             IN  SubSeq(s, a, b)

\* s.startswith(p)
StartsWith(s, p) == Len(s) >= Len(p) /\ SubSeq(s, 1, Len(p)) = p

\* p in s   (substring test)
Contains(s, p) ==
    \E i \in 1..(Len(s) - Len(p) + 1) : SubSeq(s, i, i + Len(p) - 1) = p

\* the k-th smallest element of a set of positions
Kth(P, k) == CHOOSE i \in P : Cardinality({j \in P : j < i}) = k - 1

\* s.replace(" ", "")
RemoveSpaces(s) ==
    LET K == {i \in 1..Len(s) : s[i] # " "}
    IN  [k \in 1..Cardinality(K) |-> s[Kth(K, k)]]

\* s.split(c): the pieces between the occurrences of the character c
Split(s, c) ==
    LET P == {i \in 1..Len(s) : s[i] = c}
        n == Cardinality(P)
    IN  [k \in 1..(n + 1) |->
            Slice(s, IF k = 1 THEN 1 ELSE Kth(P, k - 1) + 1,
                     IF k = n + 1 THEN Len(s) ELSE Kth(P, k) - 1)]

\* str.splitlines(): as split on the newline, without the empty piece
\* that a final newline (or an empty text) would leave at the end
SplitLines(s) ==
    LET p == Split(s, NL)
    IN  IF p[Len(p)] = <<>> THEN SubSeq(p, 1, Len(p) - 1) ELSE p

\* [f(x) for x in seq if x.strip()] building block: keep non-blank pieces,
\* each stripped
RECURSIVE StripNonBlank(_)
StripNonBlank(ps) ==
    IF ps = <<>> THEN <<>>
    ELSE IF Strip(Head(ps)) = <<>> THEN StripNonBlank(Tail(ps))
         ELSE <<Strip(Head(ps))>> \o StripNonBlank(Tail(ps))

(***************************************************************************)
(* parse_input: the regular expression                                     *)
(*     (?im)^(google[:]*\s*.+?|.+?)\s*::\s*(.+)$                           *)
(* matched as the backtracking engine of re matches it.                    *)
(***************************************************************************)
GOOGLE == <<"g","o","o","g","l","e">>
ASSISTANT == <<"a","s","s","i","s","t","a","n","t">>

\* number of consecutive \s characters of t from position p on
RECURSIVE SpaceRun(_, _)
SpaceRun(t, p) ==
    IF p <= Len(t) /\ IsSpace(t[p]) THEN 1 + SpaceRun(t, p + 1) ELSE 0

\* number of consecutive ':' characters of t from position p on
RECURSIVE ColonRun(_, _)
ColonRun(t, p) ==
    IF p <= Len(t) /\ t[p] = ":" THEN 1 + ColonRun(t, p + 1) ELSE 0

\* number of consecutive '.' matches (any character but the newline)
DotRun(t, p) ==
    IF p > Len(t) THEN 0
    ELSE LET E == {i \in p..(Len(t) + 1) : i = Len(t) + 1 \/ t[i] = NL}
         IN  (CHOOSE i \in E : \A j \in E : i <= j) - p

NoMatch == [ok |-> FALSE, s |-> 0, g1e |-> 0, split |-> 0, g2s |-> 0, g2e |-> 0]

\* the part  \s*::\s*(.+)$  tried at position p.  The first \s* is greedy and
\* must stop at the "::"; the second \s* is greedy and gives characters back
\* until (.+) has one character that is not a newline; (.+) then runs to the
\* end of that line, where $ matches.
RegexTail(t, p) ==
    LET q  == p + SpaceRun(t, p)
        e  == q + 2
        ws == SpaceRun(t, e)
        W  == {w \in 0..ws : e + w <= Len(t) /\ t[e + w] # NL}
    IN  IF q + 1 <= Len(t) /\ t[q] = ":" /\ t[q + 1] = ":" /\ W # {}
        THEN LET w == CHOOSE x \in W : \A y \in W : x >= y
                 f == e + w
             IN  [ok |-> TRUE, s |-> 0, g1e |-> p - 1, split |-> q,
                  g2s |-> f, g2e |-> f + DotRun(t, f) - 1]
        ELSE NoMatch

\* faulty variant of LazyKey: a greedy  .+  takes the longest key, so the split is at
\* the last "::" of the line
LazyKey_greedy(t, b, n) ==
    LET K == {k \in 1..DotRun(t, b) : RegexTail(t, b + k).ok}
    IN  IF K = {} THEN NoMatch
        ELSE RegexTail(t, b + (CHOOSE k \in K : \A j \in K : k >= j))

\* the lazy  .+?  starting at b, having taken n characters: the first n >= 1
\* for which the rest of the pattern matches
RECURSIVE LazyKey(_, _, _)
LazyKey(t, b, n) ==
    IF b + n - 1 > Len(t) \/ t[b + n - 1] = NL THEN NoMatch
    ELSE LET m == RegexTail(t, b + n)
         IN  IF m.ok THEN m ELSE LazyKey(t, b, n + 1)

\* first alternative  google[:]*\s*.+?  at s: [:]* and \s* are greedy, the
\* engine tries the longest run of colons first, then the longest run of
\* spaces, and shortens them only when the rest fails
RECURSIVE GoogleSpaces(_, _, _)
GoogleSpaces(t, a, w) ==
    LET m == LazyKey(t, a + w, 1)
    IN  IF m.ok THEN m
        ELSE IF w = 0 THEN NoMatch ELSE GoogleSpaces(t, a, w - 1)

RECURSIVE GoogleColons(_, _, _)
GoogleColons(t, a, c) ==
    LET m == GoogleSpaces(t, a + c, SpaceRun(t, a + c))
    IN  IF m.ok THEN m
        ELSE IF c = 0 THEN NoMatch ELSE GoogleColons(t, a, c - 1)

\* re.I: the literal "google" matches in any letter case
GoogleAt(t, s) ==
    /\ s + 5 <= Len(t)
    /\ Lower(SubSeq(t, s, s + 5)) = GOOGLE

\* the whole pattern tried at the line start s
MatchAt(t, s) ==
    LET m1 == IF GoogleAt(t, s)
              THEN GoogleColons(t, s + 6, ColonRun(t, s + 6))
              ELSE NoMatch
        m  == IF m1.ok THEN m1 ELSE LazyKey(t, s, 1)
    IN  [m EXCEPT !.s = s]

\* re.M: ^ matches at the start of the text and after every newline
LineStart(t, p) == p = 1 \/ t[p - 1] = NL

\* re.finditer: the non-overlapping matches from left to right; where the
\* pattern does not match, the search goes on at the next line start
RECURSIVE FindIter(_, _)
FindIter(t, pos) ==
    IF pos > Len(t) THEN <<>>
    ELSE LET m == MatchAt(t, pos)
         IN  IF LineStart(t, pos) /\ m.ok
             THEN <<m>> \o FindIter(t, m.g2e + 1)
             ELSE FindIter(t, pos + DotRun(t, pos) + 1)

\* key = match.group(1).strip().lower()
MatchKey(t, m) == Lower(Strip(Slice(t, m.s, m.g1e)))

\* urls = [u.strip() for u in match.group(2).split(",") if u.strip()]
MatchUrls(t, m) == StripNonBlank(Split(Slice(t, m.g2s, m.g2e), ","))

\* mapping[key] = urls on a dict kept as the sequence of its items in
\* insertion order: a new key goes to the end, an old key keeps its place
DictSet(d, k, v) ==
    IF \E i \in 1..Len(d) : d[i].key = k
    THEN [i \in 1..Len(d) |-> IF d[i].key = k THEN [key |-> k, urls |-> v] ELSE d[i]]
    ELSE Append(d, [key |-> k, urls |-> v])

RECURSIVE FoldMatches(_, _, _)
FoldMatches(t, ms, d) ==
    IF ms = <<>> THEN d
    ELSE FoldMatches(t, Tail(ms), DictSet(d, MatchKey(t, Head(ms)), MatchUrls(t, Head(ms))))

parse_input(text) == FoldMatches(text, FindIter(text, 1), <<>>)

(***************************************************************************)
(* extract_domain.  tldextract.extract(url) is computed as the library     *)
(* computes it for a host name: the scheme is dropped, the network         *)
(* location is cut at the first '/', '?', '#' and ':' and after the last   *)
(* '@', it is split into labels at the dots, and the longest run of final  *)
(* labels that is a public suffix is the suffix; the label before it is    *)
(* the domain, and without a suffix the last label is the domain.          *)
(***************************************************************************)
COM == <<"c","o","m">>

\* the public suffixes known to the model, each a sequence of labels
PublicSuffixes == {<<COM>>}

SchemeChars == {LowerChars[i] : i \in 1..26} \cup {UpperChars[i] : i \in 1..26}
                 \cup {"0","1","2","3","4","5","6","7","8","9","+","-","."}

\* s.partition(c)[0]
Before(s, c) ==
    IF \E i \in 1..Len(s) : s[i] = c
    THEN Slice(s, 1, (CHOOSE i \in 1..Len(s) : s[i] = c /\ \A j \in 1..(i - 1) : s[j] # c) - 1)
    ELSE s

\* s.rpartition(c)[-1]
AfterLast(s, c) ==
    IF \E i \in 1..Len(s) : s[i] = c
    THEN Slice(s, (CHOOSE i \in 1..Len(s) : s[i] = c /\ \A j \in (i + 1)..Len(s) : s[j] # c) + 1, Len(s))
    ELSE s

\* s.rstrip(".")
RECURSIVE RStripDots(_)
RStripDots(s) ==
    IF s # <<>> /\ s[Len(s)] = "." THEN RStripDots(SubSeq(s, 1, Len(s) - 1)) ELSE s

\* the url without its  scheme://  prefix
SchemelessUrl(url) ==
    LET P == {i \in 1..(Len(url) - 1) : url[i] = "/" /\ url[i + 1] = "/"}
    IN  IF P = {} THEN url
        ELSE LET i == CHOOSE x \in P : \A y \in P : x <= y
             IN  IF i = 1 THEN Slice(url, 3, Len(url))
                 ELSE IF i < 3 \/ url[i - 1] # ":"
                         \/ \E j \in 1..(i - 2) : url[j] \notin SchemeChars
                      THEN url
                      ELSE Slice(url, i + 2, Len(url))

LenientNetloc(url) ==
    RStripDots(Strip(Before(AfterLast(Before(Before(Before(
        SchemelessUrl(url), "/"), "?"), "#"), "@"), ":")))

\* ".".join(labels)
RECURSIVE JoinDots(_)
JoinDots(ls) ==
    IF ls = <<>> THEN <<>>
    ELSE IF Len(ls) = 1 THEN ls[1]
         ELSE ls[1] \o <<".">> \o JoinDots(Tail(ls))

\* number of labels before the public suffix; all of them when there is none
SuffixIndex(labels) ==
    LET n == Len(labels)
        C == {i \in 0..(n - 1) :
                 [j \in 1..(n - i) |-> Lower(labels[i + j])] \in PublicSuffixes}
    IN  IF C = {} THEN n ELSE CHOOSE i \in C : \A j \in C : i <= j

extract_domain(url) ==
    LET labels == Split(LenientNetloc(url), ".")
        si     == SuffixIndex(labels)
        domain == IF si > 0 THEN labels[si] ELSE <<>>
        suffix == JoinDots(Slice(labels, si + 1, Len(labels)))
    IN  Lower(IF suffix # <<>> THEN domain \o <<".">> \o suffix ELSE domain)

(***************************************************************************)
(* The texts a user can put in the two text areas: each is built line by   *)
(* line from the lines below.                                              *)
(***************************************************************************)
\* 'b'
QueryB == <<"b">>
\* ' AB'
QueryUpperAB == <<" ","A","B">>
\* ' '
QueryBlank == <<" ">>

QueryLines == {QueryUpperAB, QueryB, QueryBlank}

\* google::ab :: x.com/1, y.com
DocGoogleAB ==
    <<"g","o","o","g","l","e",":",":","a","b"," ",":",":"," ","x",".","c","o","m","/","1",","," ","y",".","c","o","m">>
\* assistant::ab :: x.com/2, k.com
DocAssistantAB ==
    <<"a","s","s","i","s","t","a","n","t",":",":","a","b"," ",":",":"," ","x",".","c","o","m","/","2",","," ","k",".","c","o","m">>
\* assistant ab :: x.com/1, w.x.com/2, k.com, http://k.com
PlainAssistantAB ==
    <<"a","s","s","i","s","t","a","n","t"," ","a","b"," ",":",":"," ","x",".","c","o","m","/","1",","," ","w",".","x",".","c","o","m","/","2",","," ","k",".","c","o","m",","," ","h","t","t","p",":","/","/","k",".","c","o","m">>
\* foo bar :: a.com, b.com
FooBar ==
    <<"f","o","o"," ","b","a","r"," ",":",":"," ","a",".","c","o","m",","," ","b",".","c","o","m">>
\* Google::AB :: a,b,,c,d,e,f,g,h,i,j,k
ElevenGoogle ==
    <<"G","o","o","g","l","e",":",":","A","B"," ",":",":"," ","a",",","b",",",",","c",",","d",",","e",",","f",",","g",",","h",",","i",",","j",",","k">>
\* assistant ab :: a,b,c,d,e,f,g,h,i,j,k
ElevenAssistant ==
    <<"a","s","s","i","s","t","a","n","t"," ","a","b"," ",":",":"," ","a",",","b",",","c",",","d",",","e",",","f",",","g",",","h",",","i",",","j",",","k">>
\* ::ab ::
OpenSeparator ==
    <<":",":","a","b"," ",":",":">>

DataLines ==
    {DocGoogleAB,
     DocAssistantAB,
     PlainAssistantAB,
     FooBar,
     ElevenGoogle,
     ElevenAssistant,
     OpenSeparator}

(***************************************************************************)
(* State: the two text areas, the position of the handler, what the page   *)
(* shows, and the variables of the "Generate client report" handler.       *)
(***************************************************************************)
VARIABLES queries_text, data_input, pc, screen, queries, mapping, results,
          domain_counter, google_urls, assistant_urls, I, N, SVR, UAVR, df

vars == <<queries_text, data_input, pc, screen, queries, mapping, results,
          domain_counter, google_urls, assistant_urls, I, N, SVR, UAVR, df>>

widgets == <<queries_text, data_input>>
locals == <<google_urls, assistant_urls, I, N, SVR, UAVR>>

\* number of lines of a text area
LineCount(t) ==
    IF t = <<>> THEN 0 ELSE 1 + Cardinality({i \in 1..Len(t) : t[i] = NL})

\* the text with one more line typed at its end
AddLine(t, l) == IF t = <<>> THEN l ELSE t \o <<NL>> \o l

\* the elements of a list
Range(seq) == {seq[i] : i \in 1..Len(seq)}

\* a number as the fraction num/den
Frac(n, d) == [num |-> n, den |-> d]

\* round(num/den, 3) in thousandths; a tie goes to the even neighbour (no
\* tie exists for a denominator below 16)
Round3(n, d) ==
    LET x  == 1000 * n
        fl == x \div d
        r2 == 2 * (x % d)
    IN  IF r2 < d THEN fl
        ELSE IF r2 > d THEN fl + 1
             ELSE IF fl % 2 = 0 THEN fl ELSE fl + 1

\* for k, urls in mapping.items(): if <test>: <urls>; break
\* H holds the positions of the items that pass the test: the first one wins
FirstUrls(m, H) ==
    IF H = {} THEN <<>>
    ELSE m[CHOOSE i \in H : \A j \in H : i <= j].urls

\* lines 140-145
GoogleTest(k, q) ==
    StartsWith(k, GOOGLE) /\ Contains(RemoveSpaces(k), RemoveSpaces(q))

GoogleLookup(m, q) ==
    FirstUrls(m, {i \in 1..Len(m) : GoogleTest(m[i].key, q)})

\* lines 147-151
AssistantTest(k, q) == StartsWith(k, ASSISTANT) /\ Contains(k, q)

AssistantLookup(m, q) ==
    FirstUrls(m, {i \in 1..Len(m) : AssistantTest(m[i].key, q)})

\* lines 153-158: the fallback for untagged keys assigns the empty list
\* whether or not an untagged key holds the query
GenericTest(k, q) ==
    ~StartsWith(k, GOOGLE) /\ ~StartsWith(k, ASSISTANT) /\ Contains(k, q)

Fallback(m, q, g) ==
    IF g = <<>> /\ \E i \in 1..Len(m) : GenericTest(m[i].key, q) THEN <<>> ELSE g

\* faulty variant of SharedCount: the union of the two sets instead of the intersection
SharedCount_union(g, a) == Cardinality(Range(g) \cup Range(a))

\* line 165
SharedCount(g, a) == Cardinality(Range(g) \cap Range(a))

\* the domains of the reference list, line 167
GoogleDomains(g) == {extract_domain(g[i]) : i \in 1..Len(g)}

\* faulty variant of NovelCount: raw URLs compared instead of domains
NovelCount_rawUrl(a, g) ==
    Cardinality({i \in 1..Len(a) : a[i] \notin Range(g)})

\* faulty variant of NovelCount: nothing is novel without a reference list
NovelCount_whenReference(a, g) ==
    IF g = <<>> THEN 0
    ELSE Cardinality({i \in 1..Len(a) : extract_domain(a[i]) \notin GoogleDomains(g)})

\* faulty variant of NovelCount: the candidate's domain looked up among the
\* raw reference URLs
NovelCount_rawReference(a, g) ==
    Cardinality({i \in 1..Len(a) : extract_domain(a[i]) \notin Range(g)})

\* line 167: sum(1 for u in assistant_set if extract_domain(u) not in
\* {extract_domain(x) for x in google_urls}): the number of positions of the
\* candidate list whose domain is no reference domain
NovelCount(a, g) ==
    LET gd == GoogleDomains(g)
    IN  Cardinality({i \in 1..Len(a) : extract_domain(a[i]) \notin gd})

\* faulty variant of Increment: the domain is recorded, not counted
Increment_once(c, d) == [x \in DOMAIN c \cup {d} |-> IF x = d THEN 1 ELSE c[x]]

\* line 175: domain_counter[domain] += 1 on a Counter
Increment(c, d) ==
    [x \in DOMAIN c \cup {d} |->
        IF x = d THEN (IF d \in DOMAIN c THEN c[d] + 1 ELSE 1) ELSE c[x]]

\* lines 173-175
RECURSIVE CountDomains(_, _)
CountDomains(a, c) ==
    IF a = <<>> THEN c
    ELSE CountDomains(Tail(a), Increment(c, extract_domain(Head(a))))

\* faulty variant of ReadQueries: blank lines are kept as empty queries
ReadQueries_keepBlank(text) ==
    LET ls == SplitLines(text)
    IN  [i \in 1..Len(ls) |-> Lower(Strip(ls[i]))]

\* line 130
ReadQueries(text) ==
    LET qs == StripNonBlank(SplitLines(text))
    IN  [i \in 1..Len(qs) |-> Lower(qs[i])]

EmptyCounter == [x \in {} |-> 0]

Init ==
    /\ queries_text = <<>>
    /\ data_input = <<>>
    /\ pc = "idle"
    /\ screen = "form"
    /\ queries = <<>>
    /\ mapping = <<>>
    /\ results = <<>>
    /\ domain_counter = EmptyCounter
    /\ google_urls = <<>>
    /\ assistant_urls = <<>>
    /\ I = 0
    /\ N = 0
    /\ SVR = Frac(0, 1)
    /\ UAVR = Frac(0, 1)
    /\ df = <<>>

\* the user types one more line in the Queries box (line 124)
TypeQuery ==
    /\ pc = "idle"
    /\ LineCount(queries_text) < MaxQueryLines
    /\ \E l \in QueryLines : queries_text' = AddLine(queries_text, l)
    /\ UNCHANGED <<data_input, pc, screen, queries, mapping, results,
                   domain_counter, locals, df>>

\* the user pastes one more line in the data box (line 127)
PasteData ==
    /\ pc = "idle"
    /\ LineCount(data_input) < MaxDataLines
    /\ \E l \in DataLines : data_input' = AddLine(data_input, l)
    /\ UNCHANGED <<queries_text, pc, screen, queries, mapping, results,
                   domain_counter, locals, df>>

\* the button is pressed: lines 129-136
Generate ==
    /\ pc = "idle"
    /\ queries' = ReadQueries(queries_text)
    /\ IF queries' = <<>>
       THEN /\ screen' = "error"
            /\ pc' = "error"
            /\ UNCHANGED <<mapping, results, domain_counter>>
       ELSE /\ mapping' = parse_input(data_input)
            /\ results' = <<>>
            /\ domain_counter' = EmptyCounter
            /\ pc' = "loop"
            /\ UNCHANGED screen
    /\ UNCHANGED <<widgets, locals, df>>

\* the values of one iteration: the row of query q and the counter after it
Iteration(q, g, a, i, n, svr, uavr) ==
    /\ google_urls' = g
    /\ assistant_urls' = a
    /\ I' = i
    /\ N' = n
    /\ SVR' = svr
    /\ UAVR' = uavr
    /\ domain_counter' = CountDomains(a, domain_counter)
    /\ results' = Append(results,
           [Query |-> q,
            GoogleResults |-> Len(g),
            AssistantCitations |-> Len(a),
            SharedI |-> i,
            UniqueN |-> n,
            SVR |-> Round3(svr.num, svr.den),
            UAVR |-> Round3(uavr.num, uavr.den)])

\* one iteration of  for q in queries : lines 138-185; each local of the
\* iteration is computed once and then used
ProcessQuery ==
    /\ pc = "loop"
    /\ Len(results) < Len(queries)
    /\ \E q \in {queries[Len(results) + 1]} :
       \E g \in {Fallback(mapping, q, GoogleLookup(mapping, q))} :
       \E a \in {AssistantLookup(mapping, q)} :
       \E i \in {SharedCount(g, a)} :
       \E n \in {NovelCount(a, g)} :
           Iteration(q, g, a, i, n,
                     IF g # <<>> THEN Frac(i, 10) ELSE Frac(0, 1),
                     IF a # <<>> THEN Frac(n, Len(a)) ELSE Frac(0, 1))
    /\ UNCHANGED <<widgets, pc, screen, queries, mapping, df>>

\* the loop is over: the table and the report are shown, lines 187-273
Report ==
    /\ pc = "loop"
    /\ Len(results) = Len(queries)
    /\ df' = results
    /\ screen' = "report"
    /\ pc' = "done"
    /\ UNCHANGED <<widgets, queries, mapping, results, domain_counter, locals>>

Next == TypeQuery \/ PasteData \/ Generate \/ ProcessQuery \/ Report

Spec == Init /\ [][Next]_vars

(***************************************************************************)
(* Properties.                                                             *)
(***************************************************************************)
CC == <<":", ":">>

\* the row of the query processed last; the handler's variables
\* google_urls, assistant_urls, I, N, SVR, UAVR are those of that iteration
Last == results[Len(results)]

RowDone == results # <<>>

Card(seq) == Cardinality(Range(seq))

Min2(x, y) == IF x <= y THEN x ELSE y

RECURSIVE SumCounts(_, _)
SumCounts(c, D) ==
    IF D = {} THEN 0
    ELSE LET d == CHOOSE x \in D : TRUE IN c[d] + SumCounts(c, D \ {d})

RECURSIVE SumCitations(_)
SumCitations(rows) ==
    IF rows = <<>> THEN 0
    ELSE Head(rows).AssistantCitations + SumCitations(Tail(rows))

\* C1: for every query row, SVR and UAVR lie in [0, 1], also when the
\* reference list holds more than 10 distinct URLs.
C1_RatesInUnitInterval ==
    RowDone =>
        /\ 0 <= SVR.num /\ SVR.num <= SVR.den
        /\ 0 <= UAVR.num /\ UAVR.num <= UAVR.den
        /\ Last.SVR \in 0..1000
        /\ Last.UAVR \in 0..1000

\* the documented line  assistant::<q> :: u1, u2, ...  for the query q
DocAssistantPrefix(q) == ASSISTANT \o CC \o q \o <<" ">> \o CC \o <<" ">>

DocAssistantUrls(line, q) ==
    StripNonBlank(Split(Slice(line, Len(DocAssistantPrefix(q)) + 1, Len(line)), ","))

\* C2: when the pasted data has a line  assistant::<q> :: u1, u2, ...  the
\* query q gets the candidate list [u1, u2, ...]: its row counts that many
\* assistant citations and every one of these URLs is counted in the domain
\* counter.
C2_DocumentedAssistantLine ==
    RowDone =>
        \A l \in Range(SplitLines(data_input)) :
            StartsWith(l, DocAssistantPrefix(Last.Query)) =>
                /\ assistant_urls = DocAssistantUrls(l, Last.Query)
                /\ Last.AssistantCitations = Len(DocAssistantUrls(l, Last.Query))
                /\ \A u \in Range(DocAssistantUrls(l, Last.Query)) :
                       extract_domain(u) \in DOMAIN domain_counter

\* the query a google-tagged key belongs to: the key without "google", the
\* colons after it and the surrounding blanks
TaggedQuery(k) == Strip(Slice(k, 7 + ColonRun(k, 7), Len(k)))

IsGoogleKeyFor(k, q) == StartsWith(k, GOOGLE) /\ TaggedQuery(k) = q

\* C3: the reference list of a query q is the URL list stored under the
\* google-tagged key of q, and the empty list when the mapping has no
\* google-tagged key for q; the list of another query's key is never used.
C3_ReferenceOfOwnKey ==
    RowDone =>
        LET T == {i \in 1..Len(mapping) : IsGoogleKeyFor(mapping[i].key, Last.Query)}
        IN  IF T = {} THEN google_urls = <<>>
            ELSE \E i \in T : google_urls = mapping[i].urls

\* the candidate entries whose domain is among the reference domains
OnReferenceDomain(a, g) ==
    LET gd == {extract_domain(g[j]) : j \in 1..Len(g)}
    IN  {i \in 1..Len(a) : extract_domain(a[i]) \in gd}

RECURSIVE CandidateOccurrences(_)
CandidateOccurrences(n) ==
    IF n = 0 THEN 0
    ELSE Len(AssistantLookup(mapping, queries[n])) + CandidateOccurrences(n - 1)

\* C5: after any number of iterations of the loop, and at the end of the
\* run, the counts of domain_counter add up to the number of candidate URL
\* occurrences of the queries processed so far, which is the sum of the
\* 'Assistant Citations' column.
C5_CounterTotal ==
    pc \in {"loop", "done"} =>
        /\ SumCounts(domain_counter, DOMAIN domain_counter) = SumCitations(results)
        /\ SumCitations(results) = CandidateOccurrences(Len(results))

C5_Witness ==
    /\ pc = "done"
    /\ Len(results) = 2
    /\ \E d \in DOMAIN domain_counter : domain_counter[d] >= 4

\* the lines of the Queries box that hold a character other than a blank
NonBlankLines(text) ==
    {i \in 1..Len(Split(text, NL)) :
        \E j \in 1..Len(Split(text, NL)[i]) : ~IsSpace(Split(text, NL)[i][j])}

\* C6: without a non-blank query line the run shows an error and stops:
\* nothing is parsed, no row is made, the counter stays empty and no report
\* is shown; with a non-blank line the run makes one row per such line.
C6_EmptyQueriesAbort ==
    /\ pc = "error" =>
          /\ NonBlankLines(queries_text) = {}
          /\ screen = "error"
          /\ mapping = <<>> /\ results = <<>> /\ df = <<>>
          /\ domain_counter = EmptyCounter
    /\ NonBlankLines(queries_text) = {} => pc \in {"idle", "error"}
    /\ pc = "done" =>
          /\ screen = "report"
          /\ Len(df) = Cardinality(NonBlankLines(queries_text))
          /\ Len(df) >= 1
    /\ pc = "loop" => Len(results) <= Cardinality(NonBlankLines(queries_text))

C6_Witness ==
    /\ pc = "error"
    /\ queries_text # <<>>
    /\ parse_input(data_input) # <<>>

\* C7: I is at most the number of distinct reference URLs and of distinct
\* candidate URLs, so at most min(referenceCount, candidateCount), and N is
\* at most candidateCount.
C7_CountBounds ==
    RowDone =>
        /\ Last.SharedI <= Card(google_urls)
        /\ Last.SharedI <= Card(assistant_urls)
        /\ Last.SharedI <= Min2(Last.GoogleResults, Last.AssistantCitations)
        /\ Last.UniqueN <= Last.AssistantCitations
        /\ Last.GoogleResults = Len(google_urls)
        /\ Last.AssistantCitations = Len(assistant_urls)

C7_Witness ==
    /\ RowDone
    /\ Last.SharedI >= 1
    /\ Last.UniqueN >= 1
    /\ Last.GoogleResults < Last.AssistantCitations

\* C8: empty lists give zero metrics and no error: an empty candidate list
\* gives N = 0 and UAVR = 0; an empty reference list gives I = 0, SVR = 0 and
\* N = candidateCount, with UAVR = 1 when there is a candidate.
C8_EmptyListsGiveZero ==
    RowDone =>
        /\ pc # "error" /\ screen # "error"
        /\ assistant_urls = <<>> =>
              /\ N = 0 /\ UAVR.num = 0 /\ Last.UniqueN = 0 /\ Last.UAVR = 0
        /\ google_urls = <<>> =>
              /\ I = 0 /\ SVR.num = 0 /\ Last.SharedI = 0 /\ Last.SVR = 0
              /\ N = Len(assistant_urls) /\ Last.UniqueN = Last.AssistantCitations
              /\ assistant_urls # <<>> => UAVR.num = UAVR.den /\ Last.UAVR = 1000

C8_Witness ==
    /\ RowDone
    /\ google_urls = <<>>
    /\ Len(assistant_urls) >= 2

\* is there a "::" at position p of t
SepAt(t, p) == p + 1 <= Len(t) /\ t[p] = ":" /\ t[p + 1] = ":"

FooBarMapping ==
    <<[key |-> <<"f","o","o"," ","b","a","r">>,
       urls |-> << <<"a",".","c","o","m">>, <<"b",".","c","o","m">> >>]>>

C10_SharedPlusNovel ==
    RowDone =>
        /\ Last.SharedI + Last.UniqueN <= Last.AssistantCitations
        /\ I + N <= Len(assistant_urls)
        /\ \A i \in 1..Len(assistant_urls) :
               assistant_urls[i] \in Range(google_urls) =>
                   i \in OnReferenceDomain(assistant_urls, google_urls)
        /\ N + Cardinality(OnReferenceDomain(assistant_urls, google_urls)) = Len(assistant_urls)

C10_Witness ==
    /\ RowDone
    /\ I >= 1
    /\ N >= 1
    /\ I + N < Len(assistant_urls)

====
